---- MODULE Spec2Model ----
(***************************************************************************)
(* The SQL validation and execution gateway of the school-management chat  *)
(* assistants: SecureSchoolSQLTool._run of main.py (desktop, one statement *)
(* per call, authenticated writes), of app.py (web, batches, authenticated *)
(* writes), SafeSQLTool._run of scripts/gemini_agent.py and the read-only  *)
(* SecureSchoolSQLTool._run of material_school_agent.py (the same code as  *)
(* in school_management_agent.py and chat_school_agent.py), together with  *)
(* the SecurityManager and the request handlers that call the gateway.     *)
(*                                                                         *)
(* A SQL text is a sequence of lexemes.  A lexeme is either a run of word  *)
(* characters (a keyword in some letter case, an identifier, a number) or  *)
(* one non-word character (a blank, the separator ';', '(' or '[').  Two   *)
(* adjacent word lexemes form one longer word, so <<"x","DROP">> is the    *)
(* text "xDROP", in which DROP is not a standalone word.                   *)
(***************************************************************************)
EXTENDS Naturals, Sequences, FiniteSets

VARIABLES
    variant,            \* which program runs: "desktop", "web", "gemini", "readonly"
    is_authenticated,   \* SecurityManager.is_authenticated / st.session_state.is_authenticated
    security_manager,   \* SecureSchoolSQLTool._security_manager: "None" or the manager wired last
    db,                 \* the data source: the write statements committed so far, oldest first
    sql,                \* argument of the last gateway call
    auth0,              \* value of is_authenticated when the last call started
    db0,                \* the data source when the last call started
    result,             \* value returned by the last gateway call
    executed,           \* texts handed to conn.exec_driver_sql by the last call, in order
    committed,          \* texts followed by conn.commit() in the last call, in order
    opened,             \* connections opened by the last call
    closed,             \* connections of the last call released when it returned
    calls,              \* number of gateway calls made so far
    request,            \* what the last user request did (desktop / web request handlers)
    prev,               \* the gateway call before the last one: [sql, auth, result]
    inv,                \* the gateway invocations under way in concurrent threads / sessions
    flags,              \* is_authenticated of each authorization context, for those invocations
    last_login,         \* the last login attempt since the last logout: "valid", "invalid", or "none"
    current_api,        \* MaterialSchoolChatAgent.current_api: "gemini", "glm", "groq" or "None"
    gemini_available,   \* MaterialSchoolChatAgent.gemini_available
    glm_api_key,        \* whether MaterialSchoolChatAgent.glm_api_key is set
    groq_api_key,       \* whether MaterialSchoolChatAgent.groq_api_key is set
    worker,             \* the thread in process_natural_language_query: its position, its
                        \* query, the providers it has asked for SQL, and what it returned
    send_btn,           \* state of MaterialSchoolChatAgent.send_btn: "normal" or "disabled"
    query_var,          \* MaterialSchoolChatAgent.query_var: the text in the input field
    context_window,     \* MaterialSchoolChatAgent.context_window
    max_context_length, \* MaterialSchoolChatAgent.max_context_length
    arrivals            \* every message handed to add_to_context so far, oldest first

vars == <<variant, is_authenticated, security_manager, db, sql, auth0, db0, result,
          executed, committed, opened, closed, calls, request, prev,
         inv, flags, last_login,
         current_api, gemini_available, glm_api_key, groq_api_key, worker,
         send_btn, query_var, context_window, max_context_length, arrivals>>

\* the fields of the desktop agent that select the translation service, and
\* the worker thread that translates one query
agentVars == <<current_api, gemini_available, glm_api_key, groq_api_key, worker>>

\* the input widgets of the desktop window
uiVars == <<send_btn, query_var>>

\* the conversation context of the desktop agent
contextVars == <<context_window, max_context_length, arrivals>>

----------------------------------------------------------------------------
(* Bounds of the model *)

\* longest tail, in items, that follows the head of a generated statement
MaxTail == 1
\* most ';'-separated pieces in a generated batch
MaxPieces == 3
\* most gateway calls in one session
MaxCalls == 3
\* most login attempts made in the authentication dialog before it closes
MaxAttempts == 2
\* most messages handed to add_to_context
MaxMessages == 4
\* largest max_context_length configured
MaxContext == 2
\* int(os.getenv("MAX_CONTEXT_MESSAGES", "10"))
DefaultMaxContext == 10

----------------------------------------------------------------------------
(* Characters and Python string methods *)

Whitespace == {" "}

NonWordChars == Whitespace \cup {";", "(", "[", ","}

\* \w+ : a lexeme made of word characters
IsWord(c) == c \notin NonWordChars

\* \d+ : a lexeme made of digits
IsDigits(c) == c \in {"1", "100", "200"}

\* str.upper() on one lexeme
UpperLexeme(c) ==
    CASE c = "select" -> "SELECT"
      [] c = "delete" -> "DELETE"
      [] c = "update" -> "UPDATE"
      [] c = "drop" -> "DROP"
      [] c = "exec" -> "EXEC"
      [] c = "limit" -> "LIMIT"
      [] c = "count" -> "COUNT"
      [] c = "x" -> "X"
      [] c = "y" -> "Y"
      [] c = "missing" -> "MISSING"
      [] OTHER -> c

\* an upper-casing that leaves the text as it is
UpperUnchanged(s) == s

\* str.upper()
Upper(s) == [i \in 1..Len(s) |-> UpperLexeme(s[i])]

SetMin(S) == CHOOSE m \in S : \A n \in S : m <= n

SetMax(S) == CHOOSE m \in S : \A n \in S : n <= m

\* str.strip()
Strip(s) ==
    LET keep == {i \in 1..Len(s) : s[i] \notin Whitespace}
    IN  IF keep = {} THEN <<>> ELSE SubSeq(s, SetMin(keep), SetMax(keep))

\* str.rstrip(";")
RStripSemi(s) ==
    LET keep == {i \in 1..Len(s) : s[i] # ";"}
    IN  IF keep = {} THEN <<>> ELSE SubSeq(s, 1, SetMax(keep))

\* ";" in s
HasSeparator(s) == \E i \in 1..Len(s) : s[i] = ";"

RECURSIVE SplitSemi(_)
\* str.split(';')
SplitSemi(s) ==
    LET seps == {i \in 1..Len(s) : s[i] = ";"}
    IN  IF seps = {} THEN <<s>>
        ELSE <<SubSeq(s, 1, SetMin(seps) - 1)>>
             \o SplitSemi(SubSeq(s, SetMin(seps) + 1, Len(s)))

\* [f(x) for x in seq if x] over a sequence of texts: the non-empty ones, in order
RECURSIVE NonEmpty(_)
NonEmpty(ss) ==
    IF ss = <<>> THEN <<>>
    ELSE IF Head(ss) = <<>> THEN NonEmpty(Tail(ss))
    ELSE <<Head(ss)>> \o NonEmpty(Tail(ss))

\* a splitter that hands the statements over last first
SplitStatementsReversed(text) ==
    LET pieces == SplitSemi(text)
        ss == NonEmpty([i \in 1..Len(pieces) |-> Strip(pieces[i])])
    IN  [k \in 1..Len(ss) |-> ss[Len(ss) + 1 - k]]

\* statements = [s.strip() for s in sql.split(';') if s.strip()]
SplitStatements(text) ==
    LET pieces == SplitSemi(text)
    IN  NonEmpty([i \in 1..Len(pieces) |-> Strip(pieces[i])])

\* s.split()[0] : the first maximal run of non-blank characters (s holds one)
FirstToken(s) ==
    LET t == Strip(s)
        blanks == {i \in 1..Len(t) : t[i] \in Whitespace}
    IN  IF blanks = {} THEN t ELSE SubSeq(t, 1, SetMin(blanks) - 1)

----------------------------------------------------------------------------
(* Regular expressions of the gateways *)

\* \b before position i
BoundaryBefore(s, i) == i = 1 \/ ~IsWord(s[i - 1])

\* \b after position i
BoundaryAfter(s, i) == i = Len(s) \/ ~IsWord(s[i + 1])

\* re.search(r"\b(K1|K2|...)\b", s, re.I)
SearchWord(s, K) ==
    \E i \in 1..Len(s) :
        /\ UpperLexeme(s[i]) \in K
        /\ BoundaryBefore(s, i)
        /\ BoundaryAfter(s, i)

\* re.match(r"(?is)^\s*(k1|k2|...)\b", s)
MatchLeading(s, K) ==
    \E i \in 1..Len(s) :
        /\ \A j \in 1..(i - 1) : s[j] \in Whitespace
        /\ UpperLexeme(s[i]) \in K
        /\ BoundaryAfter(s, i)

\* \s+ from position i to position j - 1, j > i
BlanksBetween(s, i, j) ==
    /\ j > i + 1
    /\ \A k \in (i + 1)..(j - 1) : s[k] \in Whitespace

\* re.search(r"\blimit\s+\d+\b", s, re.I)
SearchLimit(s) ==
    \E i \in 1..Len(s) : \E j \in 1..Len(s) : \E k \in j..Len(s) :
        /\ UpperLexeme(s[i]) = "LIMIT"
        /\ BoundaryBefore(s, i)
        /\ BlanksBetween(s, i, j)
        /\ \A d \in j..k : IsDigits(s[d])
        /\ BoundaryAfter(s, k)

AggregateFunctions == {"COUNT", "SUM", "AVG", "MAX", "MIN"}

\* \bgroup\s+by\b at position i (leading \b only when wordStart)
GroupByAt(s, i, wordStart) ==
    \E j \in 1..Len(s) :
        /\ UpperLexeme(s[i]) = "GROUP"
        /\ wordStart => BoundaryBefore(s, i)
        /\ BlanksBetween(s, i, j)
        /\ UpperLexeme(s[j]) = "BY"
        /\ BoundaryAfter(s, j)

\* re.search(r"\bcount\(|\bgroup\s+by\b|\bsum\(|\bavg\(|\bmax\(|\bmin\(", s, re.I)
SearchAggregate(s) ==
    \E i \in 1..Len(s) :
        \/ /\ UpperLexeme(s[i]) \in AggregateFunctions
           /\ BoundaryBefore(s, i)
           /\ i < Len(s)
           /\ s[i + 1] = "("
        \/ GroupByAt(s, i, TRUE)

\* re.search(r"\bcount\(|group\s+by\b|\bsum\(|\bavg\(|\bmax\(|\bmin\(", s, re.I)
SearchAggregateGemini(s) ==
    \E i \in 1..Len(s) :
        \/ /\ UpperLexeme(s[i]) \in AggregateFunctions
           /\ BoundaryBefore(s, i)
           /\ i < Len(s)
           /\ s[i + 1] = "("
        \/ GroupByAt(s, i, FALSE)

----------------------------------------------------------------------------
(* The data source and the driver (sqlalchemy over SQLite) *)

\* SQL ignores the amount of blank space between tokens: leading and trailing
\* blanks dropped, every run of blanks collapsed to one
RECURSIVE Collapse(_)
Collapse(s) ==
    IF s = <<>> THEN <<>>
    ELSE IF Head(s) \in Whitespace /\ (Len(s) = 1 \/ s[2] \in Whitespace)
    THEN Collapse(Tail(s))
    ELSE <<Head(s)>> \o Collapse(Tail(s))

Normalize(s) == Collapse(Strip(s))

\* conn.exec_driver_sql(s) raises: the statement names the table "missing",
\* which the database does not have
DriverRaises(s) == \E i \in 1..Len(s) : s[i] = "missing"

\* the select list of a statement the driver accepts: what stands between the
\* leading keyword and the first LIMIT or GROUP clause
SelectList(s) ==
    LET t == Strip(s)
        body == SubSeq(t, 2, Len(t))
        ends == {i \in 1..Len(body) :
                    /\ UpperLexeme(body[i]) \in {"LIMIT", "GROUP"}
                    /\ (i > 1 => ~IsWord(body[i - 1]))}
    IN  SubSeq(body, 1, IF ends = {} THEN Len(body) ELSE SetMin(ends) - 1)

RECURSIVE SplitComma(_)
\* the items of a select list
SplitComma(s) ==
    LET seps == {i \in 1..Len(s) : s[i] = ","}
    IN  IF seps = {} THEN <<s>>
        ELSE <<SubSeq(s, 1, SetMin(seps) - 1)>>
             \o SplitComma(SubSeq(s, SetMin(seps) + 1, Len(s)))

\* result.keys(): the driver names one column for each item of the select list,
\* in the order of the list, and does not merge equal names
DriverKeys(s) ==
    LET items == SplitComma(SelectList(s))
    IN  NonEmpty([i \in 1..Len(items) |-> Strip(items[i])])

\* result.fetchall(): one row for each stored write, holding one value for each
\* column the driver names
DriverRows(s, d) ==
    [j \in 1..Len(d) |-> [i \in 1..Len(DriverKeys(s)) |-> <<DriverKeys(s)[i], d[j]>>]]

\* cols = list(result.keys()) if result.keys() else []
Columns(keys) == IF keys # <<>> THEN [i \in 1..Len(keys) |-> keys[i]] ELSE <<>>

\* a conversion that loses the last value of every row
RowsTruncated(rows) ==
    [j \in 1..Len(rows) |-> SubSeq(rows[j], 1, IF rows[j] = <<>> THEN 0 ELSE Len(rows[j]) - 1)]

\* [list(r) for r in rows]
Rows(rows) == [j \in 1..Len(rows) |-> [i \in 1..Len(rows[j]) |-> rows[j][i]]]

\* {"columns": cols, "rows": [list(r) for r in rows]}: the relation the driver
\* computes for the statement over the committed data
Table(s, d) ==
    [kind |-> "table", query |-> Normalize(s), data |-> d,
     columns |-> Columns(DriverKeys(s)), rows |-> Rows(DriverRows(s, d))]

\* f"{operation} operation completed successfully"
Acknowledgment(operation) == [kind |-> "ack", operation |-> operation]

\* "ERROR: <message>" returned by a validation layer
Error(msg) == [kind |-> "error", msg |-> msg, sql |-> <<>>]

\* f"ERROR: {e}" : the driver's message, which quotes the statement it was given
ExecutionError(s) == [kind |-> "error", msg |-> "no such table: missing", sql |-> s]

\* a list of results put together last first
ResultListReversed(items) ==
    [kind |-> "list", items |-> [k \in 1..Len(items) |-> items[Len(items) + 1 - k]]]

\* results[0] if len(results) == 1 else results
ResultList(items) == [kind |-> "list", items |-> items]

ErrDangerous ==
    Error("Dangerous operations (DROP, TRUNCATE, EXEC) are not allowed for security reasons.")

ErrAuthentication ==
    Error("Write operations require authentication. Please authenticate first.")

ErrMultiple == Error("Multiple statements are not allowed.")

ErrOnlyDml == Error("Only SELECT, UPDATE, INSERT, DELETE statements are allowed.")

ErrWriteReadOnly ==
    Error("Write operations are not allowed. Only SELECT queries are permitted.")

ErrOnlySelect == Error("Only SELECT statements are allowed.")

ErrWriteGemini == Error("write operations are not allowed.")

ErrMultipleGemini == Error("multiple statements are not allowed.")

ErrOnlySelectGemini == Error("only SELECT statements are allowed.")

----------------------------------------------------------------------------
(* The layers of SecureSchoolSQLTool._run (main.py and app.py) *)

WriteKeywords == {"INSERT", "UPDATE", "DELETE", "CREATE", "ALTER", "REPLACE"}

DangerousKeywords == {"DROP", "TRUNCATE", "EXEC", "EXECUTE"}

\* a cleaning that leaves a trailing separator in place
CleanInputNoRStrip(text) == Strip(text)

\* s = sql.strip().rstrip(";")
CleanInput(text) == RStripSemi(Strip(text))

\* a write test that takes every statement for a write
AnyStatementIsWrite(s) == TRUE

\* write_operations = re.search(r"\b(INSERT|UPDATE|DELETE|CREATE|ALTER|REPLACE)\b", s, re.I)
WriteOperations(s) == SearchWord(s, WriteKeywords)

\* dangerous_operations = re.search(r"\b(DROP|TRUNCATE|EXEC|EXECUTE)\b", s, re.I)
DangerousOperations(s) == SearchWord(s, DangerousKeywords)

\* a separator test that never finds one
NoMultipleCheck(s) == FALSE

\* if ";" in s
MultipleStatements(s) == HasSeparator(s)

\* a leading-keyword test that lets every statement through
AnyStatementAllowed(s) == TRUE

\* a leading-keyword test that lets the other write keywords through as well
AllowedStatementWithDdl(s) ==
    MatchLeading(s, {"SELECT", "UPDATE", "INSERT", "DELETE", "CREATE", "ALTER", "REPLACE"})

\* re.match(r"(?is)^\s*(select|update|insert|delete)\b", s)
AllowedStatement(s) == MatchLeading(s, {"SELECT", "UPDATE", "INSERT", "DELETE"})

\* re.match(r"(?is)^\s*select\b", s)
IsSelect(s) == MatchLeading(s, {"SELECT"})

DefaultLimit == "100"

GeminiLimit == "200"

\* s += " LIMIT 100"
AppendLimit(s, cap) == s \o <<" ", "LIMIT", " ", cap>>

\* a LIMIT injection that does not look for aggregates
InjectLimitNoAggregate(s) ==
    IF IsSelect(s) /\ ~SearchLimit(s) THEN AppendLimit(s, DefaultLimit) ELSE s

\* a LIMIT injection that does not look at the leading keyword
InjectLimitAnyStatement(s) ==
    IF ~SearchLimit(s) /\ ~SearchAggregate(s) THEN AppendLimit(s, DefaultLimit) ELSE s

\* Security Layer 4: LIMIT injection, only for SELECT statements
InjectLimit(s) ==
    IF IsSelect(s) /\ ~SearchLimit(s) /\ ~SearchAggregate(s)
    THEN AppendLimit(s, DefaultLimit)
    ELSE s

\* a return before the try block: nothing reaches the driver
Rejected(err, d) ==
    [result |-> err, executed |-> <<>>, committed |-> <<>>, opened |-> 0, closed |-> 0, db |-> d]

\* an executor that releases its connection only when the driver did not raise
ExecuteStatementLeaking(s, d) ==
    IF DriverRaises(s)
    THEN [result |-> ExecutionError(s), executed |-> <<s>>, committed |-> <<>>,
          opened |-> 1, closed |-> 0, db |-> d]
    ELSE IF IsSelect(s)
    THEN [result |-> Table(s, d), executed |-> <<s>>, committed |-> <<>>,
          opened |-> 1, closed |-> 1, db |-> d]
    ELSE [result |-> Acknowledgment(Upper(FirstToken(s))), executed |-> <<s>>,
          committed |-> <<s>>, opened |-> 1, closed |-> 1, db |-> Append(d, Normalize(s))]

\* an executor without the except clause: the driver's exception leaves the call
ExecuteStatementRaising(s, d) ==
    IF DriverRaises(s)
    THEN [result |-> [kind |-> "raised", msg |-> "no such table: missing", sql |-> s],
          executed |-> <<s>>, committed |-> <<>>, opened |-> 1, closed |-> 1, db |-> d]
    ELSE IF IsSelect(s)
    THEN [result |-> Table(s, d), executed |-> <<s>>, committed |-> <<>>,
          opened |-> 1, closed |-> 1, db |-> d]
    ELSE [result |-> Acknowledgment(Upper(FirstToken(s))), executed |-> <<s>>,
          committed |-> <<s>>, opened |-> 1, closed |-> 1, db |-> Append(d, Normalize(s))]

\* an executor that stores every statement it runs, reads included
ExecuteStatementStoringReads(s, d) ==
    IF DriverRaises(s)
    THEN [result |-> ExecutionError(s), executed |-> <<s>>, committed |-> <<>>,
          opened |-> 1, closed |-> 1, db |-> d]
    ELSE IF IsSelect(s)
    THEN [result |-> Table(s, d), executed |-> <<s>>, committed |-> <<>>,
          opened |-> 1, closed |-> 1, db |-> Append(d, Normalize(s))]
    ELSE [result |-> Acknowledgment(Upper(FirstToken(s))), executed |-> <<s>>,
          committed |-> <<s>>, opened |-> 1, closed |-> 1, db |-> Append(d, Normalize(s))]

\* an executor that acknowledges a write without committing it
ExecuteStatementNoCommit(s, d) ==
    IF DriverRaises(s)
    THEN [result |-> ExecutionError(s), executed |-> <<s>>, committed |-> <<>>,
          opened |-> 1, closed |-> 1, db |-> d]
    ELSE IF IsSelect(s)
    THEN [result |-> Table(s, d), executed |-> <<s>>, committed |-> <<>>,
          opened |-> 1, closed |-> 1, db |-> d]
    ELSE [result |-> Acknowledgment(Upper(FirstToken(s))), executed |-> <<s>>,
          committed |-> <<>>, opened |-> 1, closed |-> 1, db |-> d]

\* try: with engine.connect() as conn: ... except Exception as e
ExecuteStatement(s, d) ==
    IF DriverRaises(s)
    THEN [result |-> ExecutionError(s), executed |-> <<s>>, committed |-> <<>>,
          opened |-> 1, closed |-> 1, db |-> d]
    ELSE IF IsSelect(s)
    THEN [result |-> Table(s, d), executed |-> <<s>>, committed |-> <<>>,
          opened |-> 1, closed |-> 1, db |-> d]
    ELSE [result |-> Acknowledgment(Upper(FirstToken(s))), executed |-> <<s>>,
          committed |-> <<s>>, opened |-> 1, closed |-> 1, db |-> Append(d, Normalize(s))]

\* the validation layers applied to one statement; "pass" when it may run
ValidateDesktop(s, auth) ==
    IF DangerousOperations(s) THEN ErrDangerous
    ELSE IF WriteOperations(s) /\ ~auth THEN ErrAuthentication
    ELSE IF MultipleStatements(s) THEN ErrMultiple
    ELSE IF ~AllowedStatement(s) THEN ErrOnlyDml
    ELSE [kind |-> "pass"]

\* SecureSchoolSQLTool._run of main.py
RunDesktop(text, auth, d) ==
    LET s == CleanInput(text)
        verdict == ValidateDesktop(s, auth)
    IN  IF verdict.kind = "error" THEN Rejected(verdict, d)
        ELSE ExecuteStatement(InjectLimit(s), d)

\* the checks of the for loop of app.py on one statement
ValidateWeb(s, auth) ==
    IF DangerousOperations(s) THEN ErrDangerous
    ELSE IF WriteOperations(s) /\ ~auth THEN ErrAuthentication
    ELSE IF ~AllowedStatement(s) THEN ErrOnlyDml
    ELSE [kind |-> "pass"]

RECURSIVE WebLoop(_, _, _)
\* for s in statements: ... ; acc is what the loop has done so far
WebLoop(statements, auth, acc) ==
    IF statements = <<>>
    THEN [acc EXCEPT !.result = IF Len(acc.result) = 1 THEN acc.result[1]
                                  ELSE ResultList(acc.result)]
    ELSE LET s == Head(statements)
             verdict == ValidateWeb(s, auth)
             run == ExecuteStatement(InjectLimit(s), acc.db)
             sofar == [result |-> acc.result,
                       executed |-> acc.executed \o run.executed,
                       committed |-> acc.committed \o run.committed,
                       opened |-> acc.opened + run.opened,
                       closed |-> acc.closed + run.closed,
                       db |-> run.db]
         IN  IF verdict.kind = "error" THEN [acc EXCEPT !.result = verdict]
             ELSE IF run.result.kind = "error" THEN [sofar EXCEPT !.result = run.result]
             ELSE WebLoop(Tail(statements), auth,
                          [sofar EXCEPT !.result = Append(acc.result, run.result)])

\* SecureSchoolSQLTool._run of app.py
RunWeb(text, auth, d) ==
    WebLoop(SplitStatements(text), auth,
            [result |-> <<>>, executed |-> <<>>, committed |-> <<>>, opened |-> 0, closed |-> 0, db |-> d])

----------------------------------------------------------------------------
(* The read-only gateways *)

\* re.search(r"\b(INSERT|UPDATE|DELETE|DROP|TRUNCATE|ALTER|CREATE|REPLACE|EXEC|EXECUTE)\b", s, re.I)
BlockedReadOnly(s) == SearchWord(s, WriteKeywords \cup DangerousKeywords)

\* re.search(r"\b(INSERT|UPDATE|DELETE|DROP|TRUNCATE|ALTER|CREATE|REPLACE)\b", s, re.I)
BlockedGemini(s) == SearchWord(s, WriteKeywords \cup {"DROP", "TRUNCATE"})

\* the read path: execute, fetchall, build the dict; no commit
ExecuteRead(s, d) ==
    IF DriverRaises(s)
    THEN [result |-> ExecutionError(s), executed |-> <<s>>, committed |-> <<>>,
          opened |-> 1, closed |-> 1, db |-> d]
    ELSE [result |-> Table(s, d), executed |-> <<s>>, committed |-> <<>>,
          opened |-> 1, closed |-> 1, db |-> d]

\* SecureSchoolSQLTool._run of material_school_agent.py (and of
\* school_management_agent.py and chat_school_agent.py, the same code)
RunReadOnly(text, d) ==
    LET s == CleanInput(text)
    IN  IF BlockedReadOnly(s) THEN Rejected(ErrWriteReadOnly, d)
        ELSE IF MultipleStatements(s) THEN Rejected(ErrMultiple, d)
        ELSE IF ~IsSelect(s) THEN Rejected(ErrOnlySelect, d)
        ELSE IF ~SearchLimit(s) /\ ~SearchAggregate(s)
        THEN ExecuteRead(AppendLimit(s, DefaultLimit), d)
        ELSE ExecuteRead(s, d)

\* SafeSQLTool._run of scripts/gemini_agent.py
RunGemini(text, d) ==
    LET s == CleanInput(text)
    IN  IF BlockedGemini(s) THEN Rejected(ErrWriteGemini, d)
        ELSE IF MultipleStatements(s) THEN Rejected(ErrMultipleGemini, d)
        ELSE IF ~IsSelect(s) THEN Rejected(ErrOnlySelectGemini, d)
        ELSE IF ~SearchLimit(s) /\ ~SearchAggregateGemini(s)
        THEN ExecuteRead(AppendLimit(s, GeminiLimit), d)
        ELSE ExecuteRead(s, d)

\* the gateway of each program
Gateway(v, text, auth, d) ==
    CASE v = "desktop" -> RunDesktop(text, auth, d)
      [] v = "web" -> RunWeb(text, auth, d)
      [] v = "gemini" -> RunGemini(text, d)
      [] v = "readonly" -> RunReadOnly(text, d)

----------------------------------------------------------------------------
(* Authentication: SecurityManager, and the authorization the gate reads *)

\* a gate that asks only whether a security manager is attached
AuthorizationIgnoringFlag(manager, flag) == manager # "None"

\* a gate that keeps the flag it read in the call before
StaleAuthorization(manager, flag) ==
    manager # "None" /\ (IF calls = 0 THEN flag ELSE auth0)

\* not (not self._security_manager or not self._security_manager.is_authenticated)
AuthorizationContext(manager, flag) == manager # "None" /\ flag

\* email == self.admin_email and self._hash_password(password) == self.admin_password_hash
CredentialsValid(email_ok, password_ok) == email_ok /\ password_ok

----------------------------------------------------------------------------
(* Inputs of the checked calls *)

\* how a generated statement starts
Heads ==
    { <<"SELECT">>, <<"select">>, <<"INSERT">>, <<"UPDATE">>, <<"delete">>,
      <<"CREATE">>, <<"ALTER">>, <<"REPLACE">>, <<"DROP">>, <<"TRUNCATE">>,
      <<"EXEC">>, <<"EXECUTE">>, <<"WITH">>, <<>> }

\* what may follow the head
Items ==
    { <<" ", "x">>, <<" ", "missing">>, <<"x">>, <<"[", "x">>,
      <<" ", "drop">>, <<" ", "EXEC">>, <<" ", "x", "TRUNCATE">>,
      <<" ", "REPLACE", "(">>, <<" ", "x", "UPDATE">>,
      <<" ", "LIMIT", " ", "1">>, <<" ", "limit", " ", "1", "x">>,
      <<" ", "x", "LIMIT", " ", "1">>, <<" ", "LIMIT">>,
      <<" ", "count", "(">>, <<" ", "x", "MAX", "(">>,
      <<" ", "GROUP", " ", "BY">>, <<" ", "x", "GROUP", " ", "BY">>,
      <<" ", "x", ",", "x">>, <<" ", "y", ",", "x">> }

RECURSIVE TailsOf(_)
\* the concatenations of n items
TailsOf(n) ==
    IF n = 0 THEN {<<>>}
    ELSE {t \o i : t \in TailsOf(n - 1), i \in Items}

Statements == {h \o t : h \in Heads, t \in UNION {TailsOf(n) : n \in 0..MaxTail}}

\* the pieces a generated batch is made of
BatchPieces ==
    { <<>>, <<" ">>,
      <<"SELECT", " ", "x">>, <<" ", "SELECT", " ", "x", " ">>,
      <<"SELECT", " ", "missing">>, <<"UPDATE", " ", "x">>,
      <<"DELETE", " ", "missing">>, <<"DROP", " ", "x">>, <<"WITH", " ", "x">> }

RECURSIVE BatchesOf(_)
\* n pieces joined by ';'
BatchesOf(n) ==
    IF n = 1 THEN BatchPieces
    ELSE {b \o <<";">> \o p : b \in BatchesOf(n - 1), p \in BatchPieces}

Batches == UNION {BatchesOf(n) : n \in 1..MaxPieces}

Inputs == Statements \cup Batches

\* what the translation step returns in a session
SessionInputs ==
    { <<"SELECT", " ", "x">>, <<"UPDATE", " ", "x">>, <<"DROP", " ", "x">>,
      <<"UPDATE", " ", "missing">>, <<"SELECT", " ", "random", "(">> }

\* the data sources a checked call may start from: empty, or one write committed
DbStates == { <<>>, << <<"UPDATE", " ", "x">> >> }

Variants == {"desktop", "web", "gemini", "readonly"}

WriteCapable == {"desktop", "web"}

NoResult == [kind |-> "none"]

NoRequest == [kind |-> "none", write_intent |-> FALSE, credential_check |-> FALSE]

NoCall == [sql |-> <<>>, auth |-> FALSE, result |-> NoResult]

----------------------------------------------------------------------------
(* Gateway calls *)

\* the threads or sessions that may run a gateway call at the same time
Procs == {1, 2}

\* the authorization contexts: SecurityManager objects, or sessions of the web program
Contexts == {"manager", "manager2"}

\* an invocation that has not started
Idle ==
    [pc |-> "idle", text |-> <<>>, auth |-> FALSE, own |-> FALSE, seen_db |-> <<>>,
     result |-> NoResult, overlap |-> FALSE]

NoInvocations == [p \in Procs |-> Idle]

NoFlags == [c \in Contexts |-> FALSE]

\* no query is being processed
NoWorker ==
    [pc |-> "idle", data_query |-> FALSE, is_write_operation |-> FALSE,
     attempts |-> <<>>, response |-> "none"]

\* the window and the context of the agent as __init__ and setup_ui leave them
WindowAsBuilt ==
    /\ send_btn = "normal"
    /\ query_var = ""
    /\ context_window = <<>>
    /\ max_context_length = DefaultMaxContext
    /\ arrivals = <<>>

\* the agent before setup_gemini, and what the programs without an agent keep
AgentNotStarted ==
    /\ current_api = "None"
    /\ gemini_available = FALSE
    /\ glm_api_key = FALSE
    /\ groq_api_key = FALSE
    /\ worker = NoWorker
    /\ WindowAsBuilt

\* the select-list items the driver evaluates anew at every execution:
\* random(), datetime('now') and the like pass every check of _run
VolatileFunctions == {"random"}

Volatile(key) == \E i \in 1..Len(key) : key[i] \in VolatileFunctions

\* conn.exec_driver_sql(s) at the moment now: the value of a volatile column is
\* the one of that moment, every other value depends on the stored data only
AtTime(res, now) ==
    IF res.kind = "table"
    THEN [res EXCEPT !.rows =
             [j \in 1..Len(res.rows) |->
                 [i \in 1..Len(res.rows[j]) |->
                     IF Volatile(res.rows[j][i][1])
                     THEN <<res.rows[j][i][1], res.rows[j][i][2], now>>
                     ELSE res.rows[j][i]]]]
    ELSE res

\* the returned value of a call made at the moment now
ResultAtTime(res, now) ==
    IF res.kind = "list"
    THEN [res EXCEPT !.items = [k \in 1..Len(res.items) |-> AtTime(res.items[k], now)]]
    ELSE AtTime(res, now)

\* what every gateway call records; the caller says what becomes of
\* is_authenticated, security_manager and request
Record(text, flag, out) ==
    /\ sql' = text
    /\ auth0' = flag
    /\ db0' = db
    /\ result' = ResultAtTime(out.result, calls)
    /\ executed' = out.executed
    /\ committed' = out.committed
    /\ opened' = out.opened
    /\ closed' = out.closed
    /\ db' = out.db
    /\ calls' = calls + 1
    /\ prev' = IF calls = 0 THEN NoCall
               ELSE [sql |-> sql, auth |-> auth0, result |-> result]

\* a gateway call that logs the caller out when it returns
InvokeLoggingOut(text, flag) ==
    /\ security_manager' = "manager"
    /\ is_authenticated' = FALSE
    /\ Record(text, flag, Gateway(variant, text, AuthorizationContext("manager", flag), db))

\* safe_tool = SecureSchoolSQLTool(); SecureSchoolSQLTool.set_security_manager(...);
\* result = safe_tool._run(sql_query), with is_authenticated = flag at that moment;
\* _run has no assignment to the flag, which is after the call what it was
Invoke(text, flag) ==
    /\ security_manager' = "manager"
    /\ is_authenticated' = flag
    /\ Record(text, flag, Gateway(variant, text, AuthorizationContext("manager", flag), db))

\* result = safe_tool._run(sql_query) of the read-only programs
InvokeReadOnly(text) ==
    /\ security_manager' = security_manager
    /\ is_authenticated' = is_authenticated
    /\ Record(text, is_authenticated, Gateway(variant, text, FALSE, db))

\* one call of the desktop gateway on any input
CallDesktop ==
    /\ variant = "desktop"
    /\ calls = 0
    /\ \E text \in Inputs : Invoke(text, is_authenticated)
    /\ UNCHANGED <<agentVars, uiVars, contextVars, variant, request, inv, flags, last_login>>

\* one call of the web gateway on any input
CallWeb ==
    /\ variant = "web"
    /\ calls = 0
    /\ \E text \in Inputs : Invoke(text, is_authenticated)
    /\ UNCHANGED <<agentVars, uiVars, contextVars, variant, request, inv, flags, last_login>>

\* one call of the gemini script's gateway on any input
CallGemini ==
    /\ variant = "gemini"
    /\ calls = 0
    /\ \E text \in Inputs : InvokeReadOnly(text)
    /\ UNCHANGED <<agentVars, uiVars, contextVars, variant, request, inv, flags, last_login>>

\* one call of a read-only gateway on any input
CallReadOnly ==
    /\ variant = "readonly"
    /\ calls = 0
    /\ \E text \in Inputs : InvokeReadOnly(text)
    /\ UNCHANGED <<agentVars, uiVars, contextVars, variant, request, inv, flags, last_login>>

\* a gateway about to be called, in any authorization state and on any data
Init ==
    /\ variant \in Variants
    /\ is_authenticated \in (IF variant \in WriteCapable THEN BOOLEAN ELSE {FALSE})
    /\ security_manager = "None"
    /\ db \in DbStates
    /\ sql = <<>>
    /\ auth0 = FALSE
    /\ db0 = db
    /\ result = NoResult
    /\ executed = <<>>
    /\ committed = <<>>
    /\ opened = 0
    /\ closed = 0
    /\ calls = 0
    /\ request = NoRequest
    /\ prev = NoCall
    /\ inv = NoInvocations
    /\ flags = NoFlags
    /\ last_login = IF is_authenticated THEN "valid" ELSE "none"
    /\ AgentNotStarted

Next == CallDesktop \/ CallWeb \/ CallGemini \/ CallReadOnly

Spec == Init /\ [][Next]_vars

----------------------------------------------------------------------------
(* Sessions of the desktop and the web program *)

\* what the user does in the authentication dialog before it closes: the
\* <<email_ok, password_ok>> of each press of Login (or Return), in order. A
\* failed attempt leaves the dialog open, a successful one closes it after
\* auth_dialog.after(1000, ...), Cancel closes it at once.
RECURSIVE RunsOfLength(_)
RunsOfLength(n) ==
    IF n = 0 THEN {<<>>}
    ELSE {Append(run, c) : run \in RunsOfLength(n - 1), c \in BOOLEAN \X BOOLEAN}

DialogRuns == UNION {RunsOfLength(n) : n \in 0..MaxAttempts}

\* verify_credentials on one attempt
AttemptValid(c) == CredentialsValid(c[1], c[2])

\* SecurityManager.authenticate(root) of main.py: returns at once when the flag
\* is set; otherwise verify_credentials sets the flag on every valid attempt and
\* leaves it alone on an invalid one, and the flag is returned when the
\* dialog has closed
AuthenticateDialog(flag, run) ==
    IF flag THEN TRUE
    ELSE \E i \in 1..Len(run) : AttemptValid(run[i])

\* the last login attempt after authenticate(root) has returned
AttemptAfterDialog(last, flag, run) ==
    IF flag \/ run = <<>> THEN last
    ELSE IF AttemptValid(run[Len(run)]) THEN "valid" ELSE "invalid"

\* what a call of authenticate(root) can leave behind, over all the user may do
\* in the dialog: the flag returned and the last login attempt
Authenticate(flag, last) ==
    {[flag |-> AuthenticateDialog(flag, run),
      attempt |-> AttemptAfterDialog(last, flag, run)] : run \in DialogRuns}

\* MaterialSchoolChatAgent.toggle_authentication: the login / logout button
ToggleAuthentication ==
    /\ variant = "desktop"
    /\ IF is_authenticated
       THEN /\ is_authenticated' = FALSE
            /\ last_login' = "none"
       ELSE \E dialog \in Authenticate(FALSE, last_login) :
                /\ is_authenticated' = dialog.flag
                /\ last_login' = dialog.attempt
    /\ UNCHANGED <<agentVars, uiVars, contextVars, variant, security_manager, db, sql, auth0, db0, result, executed,
                   committed, opened, closed, calls, request, prev, inv, flags>>

\* what process_fallback_query runs when no translation service is available
FallbackQueries == { <<"SELECT", " ", "COUNT", "(", " ", "GROUP", " ", "BY", " ", "x">> }

\* send_message -> process_natural_language_query of main.py, for one user query:
\* data_query: the query is not conversational and holds a meaningful keyword;
\* is_write_operation: it holds a write keyword or phrase; text: the SQL the
\* translation service returns for it (any text)
SendMessage ==
    /\ variant = "desktop"
    /\ calls < MaxCalls
    /\ \E data_query \in BOOLEAN, is_write_operation \in BOOLEAN,
          dialog \in Authenticate(FALSE, "none"),
          text \in SessionInputs \cup FallbackQueries :
           LET flag == IF is_write_operation THEN dialog.flag ELSE is_authenticated
               attempt == IF is_write_operation THEN dialog.attempt ELSE last_login
           IN  IF ~data_query
               THEN /\ request' = [kind |-> "conversational", write_intent |-> FALSE,
                                   credential_check |-> FALSE]
                    /\ UNCHANGED <<is_authenticated, security_manager, db, sql, auth0, db0,
                                   result, executed, committed, opened, closed, calls, prev,
                                   last_login>>
               ELSE IF is_write_operation /\ ~flag
               THEN /\ is_authenticated' = FALSE
                    /\ last_login' = attempt
                    /\ request' = [kind |-> "cancelled", write_intent |-> TRUE,
                                   credential_check |-> FALSE]
                    /\ UNCHANGED <<security_manager, db, sql, auth0, db0, result, executed,
                                   committed, opened, closed, calls, prev>>
               ELSE /\ request' = [kind |-> "ran", write_intent |-> is_write_operation,
                                   credential_check |-> is_write_operation]
                    /\ Invoke(text, flag)
                    /\ last_login' = attempt
    /\ UNCHANGED <<agentVars, uiVars, contextVars, variant, inv, flags>>

\* the Login button of the sidebar of app.py: SecurityManager.authenticate
Login ==
    /\ variant = "web"
    /\ ~is_authenticated
    /\ \E email_ok \in BOOLEAN, password_ok \in BOOLEAN :
           /\ is_authenticated' = CredentialsValid(email_ok, password_ok)
           /\ last_login' = IF CredentialsValid(email_ok, password_ok)
                            THEN "valid" ELSE "invalid"
    /\ UNCHANGED <<agentVars, uiVars, contextVars, variant, security_manager, db, sql, auth0, db0, result, executed,
                   committed, opened, closed, calls, request, prev, inv, flags>>

\* the Logout button of the sidebar of app.py: SecurityManager.logout
Logout ==
    /\ variant = "web"
    /\ is_authenticated
    /\ is_authenticated' = FALSE
    /\ last_login' = "none"
    /\ UNCHANGED <<agentVars, uiVars, contextVars, variant, security_manager, db, sql, auth0, db0, result, executed,
                   committed, opened, closed, calls, request, prev, inv, flags>>

\* the chat input of app.py: a conversational answer, or
\* process_natural_language_query and the gateway on the SQL returned
ChatInput ==
    /\ variant = "web"
    /\ calls < MaxCalls
    /\ \E data_query \in BOOLEAN, text \in SessionInputs :
           IF ~data_query
           THEN /\ request' = [kind |-> "conversational", write_intent |-> FALSE,
                               credential_check |-> FALSE]
                /\ UNCHANGED <<is_authenticated, security_manager, db, sql, auth0, db0,
                               result, executed, committed, opened, closed, calls, prev>>
           ELSE /\ request' = [kind |-> "ran", write_intent |-> FALSE,
                               credential_check |-> FALSE]
                /\ Invoke(text, is_authenticated)
    /\ UNCHANGED <<agentVars, uiVars, contextVars, variant, inv, flags, last_login>>

\* the programs as started: nobody authenticated, no gateway call made
SessionInit ==
    /\ variant \in WriteCapable
    /\ is_authenticated = FALSE
    /\ security_manager = "None"
    /\ db = <<>>
    /\ sql = <<>>
    /\ auth0 = FALSE
    /\ db0 = <<>>
    /\ result = NoResult
    /\ executed = <<>>
    /\ committed = <<>>
    /\ opened = 0
    /\ closed = 0
    /\ calls = 0
    /\ request = NoRequest
    /\ prev = NoCall
    /\ inv = NoInvocations
    /\ flags = NoFlags
    /\ last_login = IF is_authenticated THEN "valid" ELSE "none"
    /\ AgentNotStarted

SessionNext == ToggleAuthentication \/ SendMessage \/ Login \/ Logout \/ ChatInput

SessionSpec == SessionInit /\ [][SessionNext]_vars

----------------------------------------------------------------------------
(* Gateway invocations running at the same time: the worker threads that  *)
(* send_message starts in the desktop program, the sessions of the web    *)
(* program. Each invocation is on one statement.                          *)

\* a process in which every invocation has a security manager of its own
ContextPerInvocation(v, p) == IF p = 1 THEN "manager" ELSE "manager2"

\* the authorization context of an invocation: self.security_manager, the one
\* SecurityManager of the desktop agent; the session of the web program
ContextOf(v, p) ==
    IF v = "desktop" THEN "manager" ELSE IF p = 1 THEN "manager" ELSE "manager2"

\* the flag the gate reads: self._security_manager.is_authenticated, through the
\* class attribute, in main.py; st.session_state.is_authenticated in app.py
FlagRead(v, p, wired, fl) == IF v = "web" THEN fl[ContextOf(v, p)] ELSE fl[wired]

otherVars ==
    <<is_authenticated, sql, auth0, db0, result, executed, committed, opened, closed, calls,
      request, prev, last_login>>

\* process_natural_language_query has obtained the SQL text of a request
Start(p) ==
    /\ inv[p].pc = "idle"
    /\ \E text \in SessionInputs : inv' = [inv EXCEPT ![p].pc = "started", ![p].text = text]
    /\ UNCHANGED <<agentVars, uiVars, contextVars, variant, security_manager, db, flags>>
    /\ UNCHANGED otherVars

\* SecureSchoolSQLTool.set_security_manager(self.security_manager): the class
\* attribute, shared by every instance of the gateway
Wire(p) ==
    /\ inv[p].pc = "started"
    /\ security_manager' = ContextOf(variant, p)
    /\ inv' = [inv EXCEPT ![p].pc = "wired"]
    /\ UNCHANGED <<agentVars, uiVars, contextVars, variant, db, flags>>
    /\ UNCHANGED otherVars

\* _run up to the try block: the validation layers, which read the class
\* attribute and the flag
Gate(p) ==
    /\ inv[p].pc = "wired"
    /\ inv' = [inv EXCEPT
                 ![p].pc = "gated",
                 ![p].auth = AuthorizationContext(security_manager,
                                 FlagRead(variant, p, security_manager, flags)),
                 ![p].own = flags[ContextOf(variant, p)],
                 ![p].overlap = \E q \in Procs \ {p} : inv[q].pc \in {"wired", "gated"}]
    /\ UNCHANGED <<agentVars, uiVars, contextVars, variant, security_manager, db, flags>>
    /\ UNCHANGED otherVars

\* _run from the try block on: the statement, if it passed, on the data source
\* as it is now
Execute(p) ==
    /\ inv[p].pc = "gated"
    /\ LET out == Gateway(variant, inv[p].text, inv[p].auth, db)
       IN  /\ db' = out.db
           /\ inv' = [inv EXCEPT ![p].pc = "done", ![p].result = out.result,
                                 ![p].seen_db = db]
    /\ UNCHANGED <<agentVars, uiVars, contextVars, variant, security_manager, flags>>
    /\ UNCHANGED otherVars

\* SecurityManager.authenticate / logout: the owner of a context sets or clears
\* its flag, at any moment
SetFlag(c) ==
    /\ flags' = [flags EXCEPT ![c] = ~flags[c]]
    /\ UNCHANGED <<agentVars, uiVars, contextVars, variant, security_manager, db, inv>>
    /\ UNCHANGED otherVars

ConcurrentInit == SessionInit

ConcurrentNext ==
    \/ \E p \in Procs : Start(p) \/ Wire(p) \/ Gate(p) \/ Execute(p)
    \/ \E c \in Contexts : SetFlag(c)

ConcurrentSpec == ConcurrentInit /\ [][ConcurrentNext]_vars

----------------------------------------------------------------------------
(* The translation services of the desktop agent and the failover between  *)
(* them: setup_gemini, process_natural_language_query, try_backup_apis,     *)
(* try_groq_api and process_fallback_query of main.py                       *)

\* a switch that goes back to the first provider
TryGroqApiBackToGemini(key, test_ok) == "gemini"

\* try_groq_api: the provider after the call, given whether the key is set and
\* whether test_groq_api succeeded; "None" stands for the return value False
TryGroqApi(key, test_ok) == IF key /\ test_ok THEN "groq" ELSE "None"

\* try_backup_apis: GLM first, then Groq
TryBackupApis(glm_key, glm_ok, groq_key, groq_ok) ==
    IF glm_key /\ glm_ok THEN "glm" ELSE TryGroqApi(groq_key, groq_ok)

\* the states setup_gemini can leave: the first provider whose test succeeded is
\* the current one, and gemini_available says whether there is one
FailoverInit ==
    /\ variant = "desktop"
    /\ is_authenticated = FALSE
    /\ security_manager = "None"
    /\ db = <<>>
    /\ sql = <<>>
    /\ auth0 = FALSE
    /\ db0 = <<>>
    /\ result = NoResult
    /\ executed = <<>>
    /\ committed = <<>>
    /\ opened = 0
    /\ closed = 0
    /\ calls = 0
    /\ request = NoRequest
    /\ prev = NoCall
    /\ inv = NoInvocations
    /\ flags = NoFlags
    /\ last_login = "none"
    /\ glm_api_key \in BOOLEAN
    /\ groq_api_key \in BOOLEAN
    /\ current_api \in {"gemini", "None"}
                      \cup (IF glm_api_key THEN {"glm"} ELSE {})
                      \cup (IF groq_api_key THEN {"groq"} ELSE {})
    /\ gemini_available = (current_api # "None")
    /\ worker = NoWorker
    /\ WindowAsBuilt

\* what a provider returns for a query: a read or a write
GeneratedQueries == { <<"SELECT", " ", "x">>, <<"UPDATE", " ", "x">> }

\* send_message starts process_query for a query of the user
BeginQuery ==
    /\ worker.pc = "idle"
    /\ calls < MaxCalls
    /\ \E data_query \in BOOLEAN, is_write_operation \in BOOLEAN :
           worker' = [pc |-> "entered", data_query |-> data_query,
                      is_write_operation |-> is_write_operation,
                      attempts |-> <<>>, response |-> "none"]
    /\ UNCHANGED <<current_api, gemini_available, glm_api_key, groq_api_key>>
    /\ UNCHANGED <<uiVars, contextVars, variant, is_authenticated, security_manager, db, sql, auth0, db0, result,
                   executed, committed, opened, closed, calls, request, prev, inv, flags,
                   last_login>>

\* process_natural_language_query from its first line to the prompt: the
\* conversational answers, and logout and authenticate for a write query
EnterQuery ==
    /\ worker.pc = "entered"
    /\ \E dialog \in Authenticate(FALSE, "none") :
           IF ~worker.data_query
           THEN /\ worker' = [worker EXCEPT !.pc = "done", !.response = "conversational"]
                /\ UNCHANGED <<is_authenticated, last_login>>
           ELSE IF ~worker.is_write_operation
           THEN /\ worker' = [worker EXCEPT !.pc = "generate"]
                /\ UNCHANGED <<is_authenticated, last_login>>
           ELSE /\ is_authenticated' = dialog.flag
                /\ last_login' = dialog.attempt
                /\ worker' = IF dialog.flag
                             THEN [worker EXCEPT !.pc = "generate"]
                             ELSE [worker EXCEPT !.pc = "done", !.response = "cancelled"]
    /\ UNCHANGED <<current_api, gemini_available, glm_api_key, groq_api_key>>
    /\ UNCHANGED <<uiVars, contextVars, variant, security_manager, db, sql, auth0, db0, result,
                   executed, committed, opened, closed, calls, request, prev, inv, flags>>

\* process_fallback_query: a query of the program's own through the gateway
FallbackQuery ==
    /\ \E text \in FallbackQueries : Invoke(text, is_authenticated)
    /\ worker' = [worker EXCEPT !.pc = "done", !.response = "result"]

\* lines 1213-1224 when no provider is left: fallback mode
GenerateFallback ==
    /\ worker.pc = "generate"
    /\ ~gemini_available \/ current_api \notin {"gemini", "glm", "groq"}
    /\ FallbackQuery
    /\ UNCHANGED <<current_api, gemini_available, glm_api_key, groq_api_key>>
    /\ UNCHANGED <<uiVars, contextVars, variant, request, inv, flags, last_login>>

\* lines 1217-1241: the current provider is asked for SQL; it answers and the
\* SQL goes through the gateway, or the call raises
Generate ==
    /\ worker.pc = "generate"
    /\ gemini_available
    /\ current_api \in {"gemini", "glm", "groq"}
    /\ \/ /\ \E text \in GeneratedQueries : Invoke(text, is_authenticated)
          /\ worker' = [worker EXCEPT !.pc = "done", !.response = "result",
                                      !.attempts = Append(@, current_api)]
       \/ /\ worker' = [worker EXCEPT !.pc = "failed",
                                      !.attempts = Append(@, current_api)]
          /\ UNCHANGED <<is_authenticated, security_manager, db, sql, auth0, db0, result,
                         executed, committed, opened, closed, calls, prev>>
    /\ UNCHANGED <<current_api, gemini_available, glm_api_key, groq_api_key>>
    /\ UNCHANGED <<uiVars, contextVars, variant, request, inv, flags, last_login>>

\* the except clause, lines 1243-1258, with the provider gemini or glm: switch
\* to a backup and process the query again from the start, or return the error
Failover ==
    /\ worker.pc = "failed"
    /\ current_api \in {"gemini", "glm"}
    /\ \E glm_ok \in BOOLEAN, groq_ok \in BOOLEAN :
           LET backup == IF current_api = "gemini"
                         THEN TryBackupApis(glm_api_key, glm_ok, groq_api_key, groq_ok)
                         ELSE TryGroqApi(groq_api_key, groq_ok)
           IN  IF backup # "None"
               THEN /\ current_api' = backup
                    /\ worker' = [worker EXCEPT !.pc = "entered"]
               ELSE /\ current_api' = current_api
                    /\ worker' = [worker EXCEPT !.pc = "done", !.response = "error"]
    /\ UNCHANGED <<gemini_available, glm_api_key, groq_api_key>>
    /\ UNCHANGED <<uiVars, contextVars, variant, is_authenticated, security_manager, db, sql, auth0, db0, result,
                   executed, committed, opened, closed, calls, request, prev, inv, flags,
                   last_login>>

\* the except clause with the provider groq: gemini_available = False and
\* process_fallback_query
FailoverToFallback ==
    /\ worker.pc = "failed"
    /\ current_api = "groq"
    /\ gemini_available' = FALSE
    /\ FallbackQuery
    /\ UNCHANGED <<current_api, glm_api_key, groq_api_key>>
    /\ UNCHANGED <<uiVars, contextVars, variant, request, inv, flags, last_login>>

\* process_query hands the response to handle_response and the thread ends
ReturnResponse ==
    /\ worker.pc = "done"
    /\ worker' = [worker EXCEPT !.pc = "idle"]
    /\ UNCHANGED <<current_api, gemini_available, glm_api_key, groq_api_key>>
    /\ UNCHANGED <<uiVars, contextVars, variant, is_authenticated, security_manager, db, sql, auth0, db0, result,
                   executed, committed, opened, closed, calls, request, prev, inv, flags,
                   last_login>>

\* the steps of the worker thread
WorkerStep ==
    EnterQuery \/ GenerateFallback \/ Generate \/ Failover \/ FailoverToFallback
    \/ ReturnResponse

FailoverNext == BeginQuery \/ WorkerStep

\* a step of the worker thread is possible exactly when a query is under way
WorkerEnabled == worker.pc # "idle"

\* the worker thread, once started, is scheduled until it ends, and the calls
\* to the services return (requests.post(..., timeout=...)) or raise: weak
\* fairness of WorkerStep, with ENABLED <<WorkerStep>>_vars written as the
\* state predicate WorkerEnabled it is equivalent to
FailoverSpec ==
    /\ FailoverInit
    /\ [][FailoverNext]_vars
    /\ ([]<>(~WorkerEnabled) \/ []<><<WorkerStep>>_vars)

----------------------------------------------------------------------------
(* The input area of the desktop window: the Send button and the Return key *)
(* of the entry both call send_message, which starts a worker thread; the   *)
(* worker runs process_natural_language_query and the gateway (Wire, Gate,  *)
(* Execute) and ends by scheduling reset_send_button.                       *)

\* the user types a query into the entry
TypeQuery ==
    /\ query_var = ""
    /\ query_var' = "query"
    /\ UNCHANGED <<send_btn, inv, flags, security_manager, db>>
    /\ UNCHANGED <<agentVars, contextVars, variant>>
    /\ UNCHANGED otherVars

\* send_message, lines 1084-1111: nothing for an empty query; otherwise the
\* entry is cleared, the button disabled and threading.Thread(...).start()
StartWorker(p) ==
    /\ query_var # ""
    /\ inv[p].pc = "idle"
    /\ query_var' = ""
    /\ send_btn' = "disabled"
    /\ \E text \in GeneratedQueries :
           inv' = [inv EXCEPT ![p].pc = "started", ![p].text = text]
    /\ UNCHANGED <<flags, security_manager, db>>
    /\ UNCHANGED <<agentVars, contextVars, variant>>
    /\ UNCHANGED otherVars

\* ttk.Button(..., command=self.send_message): a disabled button does not call
\* its command
ClickSend(p) ==
    /\ send_btn = "normal"
    /\ StartWorker(p)

\* self.query_entry.bind('<Return>', lambda e: self.send_message()): the entry
\* stays enabled while a query is processed
PressReturn(p) ==
    /\ send_btn \in {"normal", "disabled"}
    /\ StartWorker(p)

\* finally: self.root.after(0, self.reset_send_button), and reset_send_button
ResetSendButton(p) ==
    /\ inv[p].pc = "done"
    /\ inv' = [inv EXCEPT ![p].pc = "reset"]
    /\ send_btn' = "normal"
    /\ UNCHANGED <<query_var, flags, security_manager, db>>
    /\ UNCHANGED <<agentVars, contextVars, variant>>
    /\ UNCHANGED otherVars

\* the desktop program with its window built and no query sent
SendInit ==
    /\ SessionInit
    /\ variant = "desktop"

SendNext ==
    \/ TypeQuery
    \/ \E p \in Procs : ClickSend(p) \/ PressReturn(p) \/ ResetSendButton(p)
    \/ \E p \in Procs : Wire(p) \/ Gate(p) \/ Execute(p)
    \/ SetFlag("manager")

SendSpec == SendInit /\ [][SendNext]_vars

----------------------------------------------------------------------------
(* The conversation context of the desktop agent: add_to_context *)

\* seq[-n:] of Python for n >= 0: the last n elements, all of them when
\* there are fewer, and, -0 being 0, the whole of seq when n = 0
SliceFromMinus(seq, n) ==
    IF n = 0 \/ n >= Len(seq) THEN seq
    ELSE SubSeq(seq, Len(seq) - n + 1, Len(seq))

\* the roles and contents of the messages
Messages == [role : {"user", "assistant"}, content : {"a", "b"}]

\* MaterialSchoolChatAgent.add_to_context(role, content)
AddToContext ==
    /\ Len(arrivals) < MaxMessages
    /\ \E msg \in Messages :
           LET appended == Append(context_window, msg)
           IN  /\ context_window' =
                      IF Len(appended) > max_context_length
                      THEN SliceFromMinus(appended, max_context_length)
                      ELSE appended
               /\ arrivals' = Append(arrivals, msg)
    /\ UNCHANGED <<max_context_length, send_btn, query_var>>
    /\ UNCHANGED <<agentVars, variant, security_manager, db, inv, flags>>
    /\ UNCHANGED otherVars

\* the agent as __init__ leaves it, for any MAX_CONTEXT_MESSAGES >= 0
ContextInit ==
    /\ variant = "desktop"
    /\ is_authenticated = FALSE
    /\ security_manager = "None"
    /\ db = <<>>
    /\ sql = <<>>
    /\ auth0 = FALSE
    /\ db0 = <<>>
    /\ result = NoResult
    /\ executed = <<>>
    /\ committed = <<>>
    /\ opened = 0
    /\ closed = 0
    /\ calls = 0
    /\ request = NoRequest
    /\ prev = NoCall
    /\ inv = NoInvocations
    /\ flags = NoFlags
    /\ last_login = "none"
    /\ current_api = "None"
    /\ gemini_available = FALSE
    /\ glm_api_key = FALSE
    /\ groq_api_key = FALSE
    /\ worker = NoWorker
    /\ send_btn = "normal"
    /\ query_var = ""
    /\ context_window = <<>>
    /\ max_context_length \in 0..MaxContext
    /\ arrivals = <<>>

ContextNext == AddToContext

ContextSpec == ContextInit /\ [][ContextNext]_vars

----------------------------------------------------------------------------
(* Vocabulary of the claims *)

ForbiddenWords == {"DROP", "TRUNCATE", "EXEC", "EXECUTE"}

WriteWords == {"INSERT", "UPDATE", "DELETE", "CREATE", "ALTER", "REPLACE"}

\* some word of K occurs in the text as a standalone word, in any letter case
ContainsWord(text, K) ==
    \E i \in 1..Len(text) :
        /\ UpperLexeme(text[i]) \in K
        /\ (i > 1 => ~IsWord(text[i - 1]))
        /\ (i < Len(text) => ~IsWord(text[i + 1]))

\* the input trimmed, its trailing separators stripped
TrimmedBody(text) == RStripSemi(Strip(text))

\* the statement starts with a word of K
LeadingKeywordIn(s, K) ==
    /\ s # <<>>
    /\ UpperLexeme(s[1]) \in K
    /\ (Len(s) > 1 => ~IsWord(s[2]))

\* the trimmed body holds no separator
SingleStatement(text) == \A i \in 1..Len(TrimmedBody(text)) : TrimmedBody(text)[i] # ";"

\* the statements a program sees in an input: the pieces of a batch in the web
\* program, the whole trimmed body in the others
StatementsSeen(v, text) ==
    IF v = "web" THEN SplitStatements(text) ELSE <<TrimmedBody(text)>>

ValidationErrors ==
    { ErrDangerous, ErrAuthentication, ErrMultiple, ErrOnlyDml, ErrWriteReadOnly,
      ErrOnlySelect, ErrWriteGemini, ErrMultipleGemini, ErrOnlySelectGemini }

StrictVariants == {"desktop", "gemini", "readonly"}

Called == calls > 0

----------------------------------------------------------------------------
(* C1: in every gateway variant an input in which DROP, TRUNCATE, EXEC or  *)
(* EXECUTE occurs as a standalone word is rejected with a validation       *)
(* error, whatever else the batch holds and whatever the authorization.    *)
C1_ForbiddenRejected ==
    (Called /\ ContainsWord(sql, ForbiddenWords)) => result \in ValidationErrors

(* C2: a call that returns a validation error has executed and committed   *)
(* no statement of its input, the statements before the offending one      *)
(* included.                                                               *)
C2_NoPartialExecution ==
    (Called /\ result \in ValidationErrors) =>
        (executed = <<>> /\ committed = <<>> /\ opened = 0 /\ db = db0)

(* C3: with the authorization flag false, every statement that contains a  *)
(* write keyword makes the gateway return an error before the data source  *)
(* is contacted for it: at most the statements before it were executed,    *)
(* nothing is committed and the stored data is unchanged.                  *)
C3_UnauthorizedWriteRejected ==
    (Called /\ variant \in WriteCapable /\ ~auth0) =>
        \A k \in 1..Len(StatementsSeen(variant, sql)) :
            ContainsWord(StatementsSeen(variant, sql)[k], WriteWords) =>
                /\ result.kind = "error"
                /\ Len(executed) < k
                /\ opened < k
                /\ committed = <<>>
                /\ db = db0

\* an unauthorized batch whose read ran and whose write was then refused
C3_Witness ==
    /\ Called
    /\ variant = "web"
    /\ ~auth0
    /\ result = ErrAuthentication
    /\ Len(executed) = 1
    /\ ContainsWord(sql, WriteWords)

----------------------------------------------------------------------------
\* the text the gateway hands to the driver for a one-statement input: the web
\* program trims each piece again, the others keep the trimmed body as it is
StatementText(v, text) ==
    IF v = "web" THEN Strip(TrimmedBody(text)) ELSE TrimmedBody(text)

\* an authorized call of a write-capable gateway on one statement without
\* forbidden keyword that starts with a write keyword
C4_Case ==
    /\ Called
    /\ variant \in WriteCapable
    /\ auth0
    /\ SingleStatement(sql)
    /\ ~ContainsWord(sql, ForbiddenWords)
    /\ LeadingKeywordIn(TrimmedBody(sql), WriteWords)

(* C4, as claimed: such a statement passes the gate, is executed and        *)
(* returns "<OPERATION> operation completed successfully", <OPERATION>     *)
(* being its uppercased leading keyword, for each of INSERT, UPDATE,       *)
(* DELETE, CREATE, ALTER and REPLACE.                                      *)
C4_Original ==
    C4_Case =>
        /\ executed = <<StatementText(variant, sql)>>
        /\ result = Acknowledgment(<<UpperLexeme(TrimmedBody(sql)[1])>>)

(* C4, amended: a leading INSERT, UPDATE or DELETE passes the gate and is  *)
(* handed to the driver; when the driver accepts it, it is committed and   *)
(* the acknowledgment names the uppercased first blank-delimited token of  *)
(* the statement (the leading keyword when a blank or the end follows it); *)
(* when the driver raises, an error is returned and nothing is committed.  *)
(* A leading CREATE, ALTER or REPLACE is refused with the "Only SELECT,    *)
(* UPDATE, INSERT, DELETE" error and is not executed.                      *)
C4_Amended ==
    C4_Case =>
        LET s == StatementText(variant, sql)
        IN  IF LeadingKeywordIn(s, {"INSERT", "UPDATE", "DELETE"})
            THEN /\ executed = <<s>>
                 /\ IF DriverRaises(s)
                    THEN result.kind = "error" /\ committed = <<>> /\ db = db0
                    ELSE /\ result = Acknowledgment(Upper(FirstToken(s)))
                         /\ committed = <<s>>
                         /\ db # db0
                         /\ (Len(s) = 1 \/ s[2] \in Whitespace)
                                => result = Acknowledgment(<<UpperLexeme(s[1])>>)
            ELSE result = ErrOnlyDml /\ executed = <<>> /\ db = db0

\* a lower-case delete acknowledged as DELETE
C4_Witness ==
    /\ C4_Case
    /\ sql[1] = "delete"
    /\ result = Acknowledgment(<<"DELETE">>)
    /\ committed # <<>>

\* an authorized one-statement SELECT without forbidden keyword
C5_Case ==
    /\ Called
    /\ variant \in WriteCapable
    /\ SingleStatement(sql)
    /\ LeadingKeywordIn(TrimmedBody(sql), {"SELECT"})
    /\ ~ContainsWord(sql, ForbiddenWords)

(* C5, as claimed: a one-statement input that starts with SELECT and holds *)
(* no forbidden keyword returns the same result with the authorization     *)
(* flag false and with it true, on the same data.                          *)
C5_Original ==
    C5_Case => Gateway(variant, sql, ~auth0, db0).result = result

(* C5, amended: the same, for the inputs that also hold no write keyword   *)
(* as a standalone word; such a statement reaches the driver under either  *)
(* value of the flag.                                                      *)
C5_Amended ==
    (C5_Case /\ ~ContainsWord(sql, WriteWords)) =>
        /\ Gateway(variant, sql, ~auth0, db0).result = result
        /\ Len(executed) = 1
        /\ result # ErrAuthentication

\* a read answered while the flag is false
C5_Witness ==
    /\ C5_Case
    /\ ~ContainsWord(sql, WriteWords)
    /\ ~auth0
    /\ result.kind = "table"

----------------------------------------------------------------------------
\* the row cap each program appends
CapOf(v) == IF v = "gemini" THEN "200" ELSE "100"

\* the text holds LIMIT, blanks and an integer, wherever they stand
TextHasLimit(s) ==
    \E i \in 1..Len(s) : \E j \in (i + 2)..Len(s) :
        /\ UpperLexeme(s[i]) = "LIMIT"
        /\ \A k \in (i + 1)..(j - 1) : s[k] \in Whitespace
        /\ IsDigits(s[j])

\* the text holds COUNT(, SUM(, AVG(, MAX(, MIN( or GROUP BY, wherever they stand
TextHasAggregate(s) ==
    \E i \in 1..Len(s) :
        \/ /\ UpperLexeme(s[i]) \in {"COUNT", "SUM", "AVG", "MAX", "MIN"}
           /\ i < Len(s)
           /\ s[i + 1] = "("
        \/ \E j \in (i + 2)..Len(s) :
               /\ UpperLexeme(s[i]) = "GROUP"
               /\ \A k \in (i + 1)..(j - 1) : s[k] \in Whitespace
               /\ UpperLexeme(s[j]) = "BY"

\* LIMIT as a word of its own, blanks, and an integer that ends a word
WordHasLimit(s) ==
    \E i \in 1..Len(s) : \E j \in (i + 2)..Len(s) : \E e \in j..Len(s) :
        /\ UpperLexeme(s[i]) = "LIMIT"
        /\ (i > 1 => ~IsWord(s[i - 1]))
        /\ \A k \in (i + 1)..(j - 1) : s[k] \in Whitespace
        /\ \A k \in j..e : IsDigits(s[k])
        /\ (e < Len(s) => ~IsWord(s[e + 1]))

\* an aggregate name that starts a word and is followed by '(', or GROUP BY with
\* BY ending a word and, except in the gemini script, GROUP starting one
WordHasAggregate(v, s) ==
    \E i \in 1..Len(s) :
        \/ /\ UpperLexeme(s[i]) \in {"COUNT", "SUM", "AVG", "MAX", "MIN"}
           /\ (i > 1 => ~IsWord(s[i - 1]))
           /\ i < Len(s)
           /\ s[i + 1] = "("
        \/ \E j \in (i + 2)..Len(s) :
               /\ UpperLexeme(s[i]) = "GROUP"
               /\ (v # "gemini" /\ i > 1) => ~IsWord(s[i - 1])
               /\ \A k \in (i + 1)..(j - 1) : s[k] \in Whitespace
               /\ UpperLexeme(s[j]) = "BY"
               /\ (j < Len(s) => ~IsWord(s[j + 1]))

\* the statement the k-th executed text comes from, as the program sees it
SourceOf(k) ==
    IF variant = "web" THEN SplitStatements(sql)[k] ELSE TrimmedBody(sql)

(* C6, as claimed: the text handed to the driver for a read statement is   *)
(* the trimmed statement with " LIMIT <cap>" appended when the text holds  *)
(* neither LIMIT <integer> nor an aggregate indicator, and the trimmed     *)
(* statement itself when it holds either.                                  *)
C6_Original ==
    Called =>
        \A k \in 1..Len(executed) :
            LeadingKeywordIn(SourceOf(k), {"SELECT"}) =>
                executed[k] =
                    IF TextHasLimit(SourceOf(k)) \/ TextHasAggregate(SourceOf(k))
                    THEN SourceOf(k)
                    ELSE SourceOf(k) \o <<" ", "LIMIT", " ", CapOf(variant)>>

(* C6, amended: the same with LIMIT <integer> and the aggregate indicators *)
(* read as the gateways match them, at word boundaries: LIMIT a word of    *)
(* its own and the integer ending a word; COUNT, SUM, AVG, MAX, MIN        *)
(* starting a word; GROUP BY with BY ending a word and GROUP starting one  *)
(* (in the gemini script GROUP may end a longer word).                     *)
C6_Amended ==
    Called =>
        \A k \in 1..Len(executed) :
            LeadingKeywordIn(SourceOf(k), {"SELECT"}) =>
                executed[k] =
                    IF WordHasLimit(SourceOf(k)) \/ WordHasAggregate(variant, SourceOf(k))
                    THEN SourceOf(k)
                    ELSE SourceOf(k) \o <<" ", "LIMIT", " ", CapOf(variant)>>

\* a read that got the cap, and whose text holds an aggregate name inside a word
C6_Witness ==
    /\ Called
    /\ Len(executed) = 1
    /\ LeadingKeywordIn(SourceOf(1), {"SELECT"})
    /\ TextHasAggregate(SourceOf(1))
    /\ executed[1] = SourceOf(1) \o <<" ", "LIMIT", " ", CapOf(variant)>>
    /\ result.kind = "table"

(* C7: in strict single-statement mode an input whose trimmed body still   *)
(* holds ';' is refused as a whole with an error before any execution: no  *)
(* statement runs and no tabular result is produced.                       *)
C7_StrictRejectsBatch ==
    (Called /\ variant \in StrictVariants /\ ~SingleStatement(sql)) =>
        /\ result.kind = "error"
        /\ executed = <<>>
        /\ opened = 0
        /\ committed = <<>>
        /\ db = db0

\* two reads in one input, refused as multiple statements
C7_Witness ==
    /\ Called
    /\ variant = "desktop"
    /\ Len(SplitStatements(sql)) = 2
    /\ ~ContainsWord(sql, ForbiddenWords \cup WriteWords)
    /\ result = ErrMultiple
    /\ executed = <<>>

\* the input resolves to exactly one statement
OneStatement(text) == Len(SplitStatements(text)) = 1

\* the call behaved as a call on the statement alone would have
SameAsAlone ==
    LET alone == Gateway(variant, SplitStatements(sql)[1], auth0, db0)
    IN  /\ alone.result = result
        /\ alone.db = db
        /\ Len(alone.executed) = Len(executed)

----------------------------------------------------------------------------
\* the statement of the last call that met the authorization check first
FirstStatement == StatementsSeen(variant, sql)[1]

\* the last call was made on a write statement without forbidden keyword
C9_Case ==
    /\ Called
    /\ variant \in WriteCapable
    /\ StatementsSeen(variant, sql) # <<>>
    /\ ContainsWord(FirstStatement, WriteWords)
    /\ ~ContainsWord(FirstStatement, ForbiddenWords)

(* C9: after any sequence of logins, logouts and earlier calls, a write    *)
(* issued while the authorization flag is false is refused for lack of     *)
(* authentication, and one issued while it is true is not: the decision    *)
(* follows the flag's value at the moment of the call.                     *)
C9_FreshAuthorization ==
    C9_Case => (result = ErrAuthentication <=> ~auth0)

\* a write refused now although the identical call before it was allowed
C9_Witness ==
    /\ C9_Case
    /\ ~auth0
    /\ result = ErrAuthentication
    /\ prev.sql = sql
    /\ prev.auth
    /\ prev.result.kind = "ack"

(* C10: in the desktop program every write statement the gateway executes  *)
(* was authorized by a credential check made during the same user          *)
(* request, never by an authentication left over from an earlier request   *)
(* or from the login button.                                               *)
C10_WriteAuthorizedInRequest ==
    (variant = "desktop" /\ request.kind = "ran" /\ committed # <<>>) =>
        request.credential_check

----------------------------------------------------------------------------
\* the statement with the row cap of the program appended
Capped(s) == s \o <<" ", "LIMIT", " ", CapOf(variant)>>

\* the text e is what the gateway hands to the driver for the statement s
RunsAs(e, s) == e = s \/ e = Capped(s)

\* the write-capable gate refuses the statement under the flag auth
FailsValidation(s, auth) ==
    \/ ContainsWord(s, ForbiddenWords)
    \/ ContainsWord(s, WriteWords) /\ ~auth
    \/ ~LeadingKeywordIn(s, {"SELECT", "UPDATE", "INSERT", "DELETE"})

\* the driver raises on the statement
FailsExecution(s) == DriverRaises(s)

\* the position of the first statement of the batch that fails, 0 when none does
FirstFailure(ss, auth) ==
    LET failing == {f \in 1..Len(ss) : FailsValidation(ss[f], auth) \/ FailsExecution(ss[f])}
    IN  IF failing = {} THEN 0 ELSE CHOOSE f \in failing : \A g \in failing : f <= g

\* the positions that bound the pieces of an input: its separators and its ends
Cuts(text) == {0, Len(text) + 1} \cup {i \in 1..Len(text) : text[i] = ";"}

\* the cut that closes the piece opened by the cut c
NextCut(text, c) == CHOOSE n \in Cuts(text) : n > c /\ \A m \in Cuts(text) : m > c => n <= m

\* the cuts that open a piece holding something else than blanks
StatementStarts(text) ==
    {c \in Cuts(text) \ {Len(text) + 1} :
        \E i \in (c + 1)..(NextCut(text, c) - 1) : text[i] \notin Whitespace}

\* the statements of an input, by position: the trimmed non-blank pieces between
\* its separators, first to last
InputStatements(text) ==
    [k \in 1..Cardinality(StatementStarts(text)) |->
        LET c == CHOOSE b \in StatementStarts(text) :
                     Cardinality({a \in StatementStarts(text) : a <= b}) = k
        IN  Strip(SubSeq(text, c + 1, NextCut(text, c) - 1))]

(* C11: in multi-statement mode the statements handed to the driver are a  *)
(* prefix of the batch, in input order; the prefix ends just before the    *)
(* first statement that fails validation, or with the first statement on   *)
(* which the driver raises, and is the whole batch when none fails.        *)
C11_InOrderFailFast ==
    (Called /\ variant = "web") =>
        LET ss == InputStatements(sql)
            f == FirstFailure(ss, auth0)
        IN  /\ Len(executed) <= Len(ss)
            /\ \A k \in 1..Len(executed) : RunsAs(executed[k], ss[k])
            /\ Len(executed) = IF f = 0 THEN Len(ss)
                               ELSE IF FailsValidation(ss[f], auth0) THEN f - 1
                               ELSE f

\* a batch of three whose second statement failed at the driver: the first two
\* were handed over, the third never
C11_Witness ==
    /\ Called
    /\ variant = "web"
    /\ Len(InputStatements(sql)) = 3
    /\ InputStatements(sql)[1] # InputStatements(sql)[2]
    /\ Len(executed) = 2
    /\ result.kind = "error"
    /\ result.sql = executed[2]

----------------------------------------------------------------------------
\* what a read made by a later invocation of the same gateway returns on the data d
LaterRead(d) == Gateway(variant, <<"SELECT", " ", "x">>, FALSE, d).result

\* the statement is a write the gate lets through when authorized
ValidWrite(s) ==
    /\ LeadingKeywordIn(s, {"INSERT", "UPDATE", "DELETE"})
    /\ ~ContainsWord(s, ForbiddenWords)

\* an authorized batch of two: a valid write the driver accepts, then a statement
\* that passes the gate and on which the driver raises
C12_Case ==
    /\ Called
    /\ variant = "web"
    /\ auth0
    /\ Len(InputStatements(sql)) = 2
    /\ ValidWrite(InputStatements(sql)[1])
    /\ ~FailsExecution(InputStatements(sql)[1])
    /\ ~FailsValidation(InputStatements(sql)[2], auth0)
    /\ FailsExecution(InputStatements(sql)[2])

(* C12: for an authorized batch [S1, S2] in multi-statement mode where S1  *)
(* is a valid write and S2 fails at execution, S1 is committed and a later *)
(* read sees it; the call returns one error, the driver's for S2, and      *)
(* S1's acknowledgment is not part of what is returned.                    *)
C12_FailFastNoRollback ==
    C12_Case =>
        LET S1 == InputStatements(sql)[1]
            S2 == InputStatements(sql)[2]
        IN  /\ committed = <<S1>>
            /\ db = Append(db0, Normalize(S1))
            /\ LaterRead(db).kind = "table"
            /\ LaterRead(db).data = Append(db0, Normalize(S1))
            /\ result.kind = "error"
            /\ \/ result = ExecutionError(S2)
               \/ result = ExecutionError(Capped(S2))

\* such a batch, answered with the driver's error for its second statement
C12_Witness ==
    /\ C12_Case
    /\ committed # <<>>
    /\ result.kind = "error"
    /\ result.sql = executed[2]

----------------------------------------------------------------------------
\* the writes among the first n statements handed to the driver, as the data
\* source stores them
WritesAmong(n) ==
    LET IsWriteText(e) == ~LeadingKeywordIn(e, {"SELECT"})
        w == SelectSeq(SubSeq(executed, 1, n), IsWriteText)
    IN  [j \in 1..Len(w) |-> Normalize(w[j])]

\* the result of the i-th statement of the batch: what the gateway returns for
\* that statement alone on the data the statements before it have left
ResultOfStatement(i) ==
    Gateway(variant, InputStatements(sql)[i], auth0, db0 \o WritesAmong(i - 1)).result

\* a call in multi-statement mode all of whose statements succeeded
C13_Case ==
    /\ Called
    /\ variant = "web"
    /\ Len(InputStatements(sql)) >= 1
    /\ FirstFailure(InputStatements(sql), auth0) = 0

(* C13: in multi-statement mode a call over N statements that all succeed  *)
(* returns the result itself when N = 1 and, when N > 1, a sequence of     *)
(* exactly N results whose i-th element is the result of the i-th          *)
(* statement of the input.                                                 *)
C13_ResultShape ==
    C13_Case =>
        LET N == Len(InputStatements(sql))
        IN  IF N = 1
            THEN result.kind \in {"table", "ack"} /\ result = ResultOfStatement(1)
            ELSE /\ result.kind = "list"
                 /\ Len(result.items) = N
                 /\ \A i \in 1..N :
                        /\ result.items[i].kind \in {"table", "ack"}
                        /\ result.items[i] = ResultOfStatement(i)

\* a write and a read in one batch: an acknowledgment, then a table that shows
\* the write
C13_Witness ==
    /\ C13_Case
    /\ result.kind = "list"
    /\ Len(result.items) = 2
    /\ result.items[1].kind = "ack"
    /\ result.items[2].kind = "table"
    /\ result.items[2].data # db0

----------------------------------------------------------------------------
\* the part of the returned value that answers the k-th statement handed over
AnswerTo(k) == IF result.kind = "list" THEN result.items[k] ELSE result

\* the texts in a sequence of texts
TextsIn(seq) == {seq[j] : j \in 1..Len(seq)}

\* the writes the call has added to the data source
Written == {db[j] : j \in (Len(db0) + 1)..Len(db)}

(* C14, as claimed: every statement that holds a write keyword and that    *)
(* the driver has accepted is committed before the call returns, the call  *)
(* returns for it the acknowledgment naming its uppercased leading         *)
(* keyword, and a later read sees the write.                               *)
C14_Original ==
    (Called /\ variant \in WriteCapable) =>
        \A k \in 1..Len(executed) :
            (ContainsWord(executed[k], WriteWords) /\ ~DriverRaises(executed[k])) =>
                /\ executed[k] \in TextsIn(committed)
                /\ result.kind \in {"ack", "list"}
                /\ AnswerTo(k) = Acknowledgment(<<UpperLexeme(executed[k][1])>>)
                /\ LaterRead(db).data = db
                /\ Normalize(executed[k]) \in Written

(* C14, amended: a statement handed to the driver is committed exactly     *)
(* when its leading keyword is not SELECT and the driver accepts it; the   *)
(* write is then in the data source when the call returns and a later      *)
(* read sees it. Its acknowledgment starts with the uppercased leading     *)
(* keyword and is that keyword alone when a blank or the end follows it;   *)
(* it is returned unless a later statement of the batch fails, in which    *)
(* case the error is returned and the write stays committed. A SELECT      *)
(* that holds a write keyword is run as a read and nothing is committed.   *)
C14_Amended ==
    (Called /\ variant \in WriteCapable) =>
        \A k \in 1..Len(executed) :
            LET e == executed[k]
            IN  IF LeadingKeywordIn(e, {"SELECT"}) \/ DriverRaises(e)
                THEN e \notin TextsIn(committed)
                ELSE /\ e \in TextsIn(committed)
                     /\ Normalize(e) \in Written
                     /\ LaterRead(db).kind = "table"
                     /\ LaterRead(db).data = db
                     /\ result.kind # "table"
                     /\ result.kind # "error" =>
                            /\ AnswerTo(k).kind = "ack"
                            /\ AnswerTo(k).operation[1] = UpperLexeme(e[1])
                            /\ (Len(e) = 1 \/ e[2] \in Whitespace) =>
                                   AnswerTo(k) = Acknowledgment(<<UpperLexeme(e[1])>>)

\* a lower-case delete, committed, acknowledged in upper case and seen by a later read
C14_Witness ==
    /\ Called
    /\ variant \in WriteCapable
    /\ Len(executed) = 1
    /\ executed[1][1] = "delete"
    /\ result = Acknowledgment(<<"DELETE">>)
    /\ LaterRead(db).data # db0
    /\ Written # {}

----------------------------------------------------------------------------
\* the statements the program at hand finds in its input, by position
StatementsOfInput ==
    IF variant = "web" THEN InputStatements(sql) ELSE <<TrimmedBody(sql)>>

\* the last text handed to the driver
LastExecuted == executed[Len(executed)]

(* C15: every failure comes back as a value: the call always returns a     *)
(* table, an acknowledgment, a list or an "ERROR: " string; when a         *)
(* statement of the input was not handed to the driver the call returns    *)
(* an "ERROR: " string; when the driver raised, it returns "ERROR: "       *)
(* followed by the driver's message for that statement; and every error    *)
(* returned is one of the validation messages or the driver's message.     *)
C15_ErrorsAsValues ==
    Called =>
        /\ result.kind \in {"error", "table", "ack", "list"}
        /\ Len(executed) < Len(StatementsOfInput) => result.kind = "error"
        /\ (executed # <<>> /\ DriverRaises(LastExecuted)) =>
               result = ExecutionError(LastExecuted)
        /\ result.kind = "error" =>
               \/ result \in ValidationErrors
               \/ executed # <<>> /\ result = ExecutionError(LastExecuted)

\* an authorized write on which the driver raised, reported as an error value
C15_Witness ==
    /\ Called
    /\ variant = "desktop"
    /\ auth0
    /\ executed # <<>>
    /\ ~LeadingKeywordIn(LastExecuted, {"SELECT"})
    /\ result = ExecutionError(LastExecuted)
    /\ result.msg = "no such table: missing"

----------------------------------------------------------------------------
ReadOnlyVariants == {"gemini", "readonly"}

\* the input is one statement that starts with SELECT and holds neither a write
\* nor a forbidden keyword
PlainSelect(text) ==
    /\ SingleStatement(text)
    /\ LeadingKeywordIn(TrimmedBody(text), {"SELECT"})
    /\ ~ContainsWord(text, WriteWords \cup ForbiddenWords)

(* C16: the read-only variants never modify data: an input reaches the     *)
(* driver only if it is a single statement that starts with SELECT and     *)
(* holds no write and no forbidden keyword; every other input is refused   *)
(* with an error and leaves the data source unchanged; such a SELECT that  *)
(* the driver accepts returns a table.                                     *)
C16_ReadOnlyNeverWrites ==
    (Called /\ variant \in ReadOnlyVariants) =>
        /\ db = db0
        /\ committed = <<>>
        /\ executed # <<>> => PlainSelect(sql)
        /\ ~PlainSelect(sql) => (result.kind = "error" /\ executed = <<>>)
        /\ (PlainSelect(sql) /\ executed # <<>> /\ ~DriverRaises(LastExecuted)) =>
               result.kind = "table"

----------------------------------------------------------------------------
\* the error with which each program refuses a forbidden keyword
DangerousReason(v) ==
    IF v \in WriteCapable THEN ErrDangerous
    ELSE IF v = "gemini" THEN ErrWriteGemini
    ELSE ErrWriteReadOnly

\* the errors of the other checks: authentication, multiple statements,
\* unsupported statement type
OtherReasons ==
    {ErrAuthentication, ErrMultiple, ErrMultipleGemini, ErrOnlyDml, ErrOnlySelect,
     ErrOnlySelectGemini}

(* C17: forbidden dominates every other check: an input that holds a       *)
(* forbidden keyword is refused with the "dangerous operation" reason,     *)
(* whatever else it holds and whoever calls; the authentication,           *)
(* multiple-statements and unsupported-type errors are returned only for   *)
(* inputs without forbidden keyword.                                       *)
C17_ForbiddenDominates ==
    Called =>
        /\ ContainsWord(sql, ForbiddenWords) => result = DangerousReason(variant)
        /\ result \in OtherReasons => ~ContainsWord(sql, ForbiddenWords)

----------------------------------------------------------------------------
\* the statement does not start with SELECT and holds neither a write nor a
\* forbidden keyword
Unsupported(s) ==
    /\ ~LeadingKeywordIn(s, {"SELECT"})
    /\ ~ContainsWord(s, WriteWords \cup ForbiddenWords)

----------------------------------------------------------------------------
(* C19: the gateway never changes the authorization flag: after every      *)
(* gateway call the flag has the value it had when the call was made, and  *)
(* the flag changes only in a step without gateway call (login, logout, a  *)
(* cancelled authentication) or in a request that ran the authentication   *)
(* dialog before its call.                                                 *)
C19_GatewayLeavesFlag ==
    [][/\ calls' # calls => is_authenticated' = auth0'
       /\ is_authenticated' # is_authenticated =>
              (calls' = calls \/ request'.credential_check)]_vars

\* an authorized write has been made and the flag is still set
C19_Witness ==
    /\ Called
    /\ variant = "web"
    /\ auth0
    /\ is_authenticated
    /\ result.kind = "ack"
    /\ committed # <<>>

----------------------------------------------------------------------------
(* C20: under every interleaving of two invocations, the gate of each      *)
(* decides on the flag of the context wired to that invocation, as it was  *)
(* when the gate read it, and the invocation returns what the gateway      *)
(* returns for its own input, that flag and the data source as it was      *)
(* when the statement ran: nothing the other invocation wrote inside the   *)
(* gateway enters into it.                                                 *)
C20_NoSharedGatewayState ==
    \A p \in Procs :
        /\ inv[p].pc \in {"gated", "done"} => inv[p].auth = inv[p].own
        /\ inv[p].pc = "done" =>
               inv[p].result =
                   Gateway(variant, inv[p].text, inv[p].own, inv[p].seen_db).result

\* two overlapping invocations of the same write, one authorized and committed,
\* the other refused, the second having wired the gateway in between
C20_Witness ==
    /\ inv[1].pc = "done"
    /\ inv[2].pc = "done"
    /\ inv[1].text = inv[2].text
    /\ inv[1].overlap
    /\ inv[1].result.kind = "ack"
    /\ inv[2].result = ErrAuthentication
    /\ inv[2].seen_db # <<>>

----------------------------------------------------------------------------
(* C21: when a gateway call has returned, whatever it returned, every      *)
(* connection it opened (one for each statement handed to the driver) has  *)
(* been released; and a write on which the driver raised is not committed  *)
(* and leaves the data source as the statements before it left it.         *)
C21_ConnectionsReleased ==
    Called =>
        /\ opened = Len(executed)
        /\ closed = opened
        /\ (/\ executed # <<>>
            /\ DriverRaises(LastExecuted)
            /\ ~LeadingKeywordIn(LastExecuted, {"SELECT"})) =>
               /\ Len(committed) < Len(executed)
               /\ Len(db) = Len(db0) + Len(committed)
               /\ \A j \in (Len(db0) + 1)..Len(db) : ~DriverRaises(db[j])

\* a batch whose first write was committed and whose second write raised: two
\* connections opened, both released
C21_Witness ==
    /\ Called
    /\ variant = "web"
    /\ opened = 2
    /\ closed = 2
    /\ Len(committed) = 1
    /\ ~LeadingKeywordIn(LastExecuted, {"SELECT"})
    /\ result = ExecutionError(LastExecuted)

----------------------------------------------------------------------------
\* the tables in the returned value
TablesReturned ==
    IF result.kind = "table" THEN {result}
    ELSE IF result.kind = "list"
    THEN {result.items[k] : k \in {j \in 1..Len(result.items) : result.items[j].kind = "table"}}
    ELSE {}

\* every row of the table has one value for each column name
Aligned(tbl) == \A j \in 1..Len(tbl.rows) : Len(tbl.rows[j]) = Len(tbl.columns)

(* C22: every table returned has columns and rows in which each row has    *)
(* exactly as many values as there are column names, also when the driver  *)
(* names no column; and when no statement of the call failed, every        *)
(* SELECT handed to the driver is answered by such a table.                *)
C22_TabularShape ==
    Called =>
        /\ \A tbl \in TablesReturned : Aligned(tbl)
        /\ result.kind # "error" =>
               \A k \in 1..Len(executed) :
                   LeadingKeywordIn(executed[k], {"SELECT"}) =>
                       (AnswerTo(k).kind = "table" /\ Aligned(AnswerTo(k)))

\* a table of two columns with a row in it
C22_Witness ==
    /\ Called
    /\ result.kind = "table"
    /\ Len(result.columns) = 2
    /\ Len(result.rows) >= 1
    /\ Len(result.rows[1]) = 2

----------------------------------------------------------------------------
\* no name stands twice among the names
PairwiseDistinct(names) ==
    \A i, j \in 1..Len(names) : names[i] = names[j] => i = j

\* the names are those of the statement's select list, in its order
InDeclaredOrder(names, s) ==
    /\ Len(names) = Len(DriverKeys(s))
    /\ \A i \in 1..Len(names) : names[i] = DriverKeys(s)[i]

\* the SELECT statements of a call that did not end in an error
SelectsAnswered ==
    IF Called /\ result.kind # "error"
    THEN {k \in 1..Len(executed) : LeadingKeywordIn(executed[k], {"SELECT"})}
    ELSE {}

(* C24: the column names of a returned table are pairwise distinct and     *)
(* stand in the declared order of the SELECT.                              *)
C24_DistinctOrderedColumns ==
    \A k \in SelectsAnswered :
        /\ PairwiseDistinct(AnswerTo(k).columns)
        /\ InDeclaredOrder(AnswerTo(k).columns, executed[k])

----------------------------------------------------------------------------
\* the call ran SELECT statements only, and all of them
ReadCall ==
    /\ Called
    /\ result.kind \in {"table", "list"}
    /\ \A k \in 1..Len(executed) : LeadingKeywordIn(executed[k], {"SELECT"})

\* the call repeats the call before it: same text, same flag
RepeatedCall == calls >= 2 /\ prev.sql = sql /\ prev.auth = auth0

\* the text calls a function whose value changes from one execution to the next
CallsVolatile(text) == \E i \in 1..Len(text) : text[i] = "random"

(* C23 as stated: a read leaves the data source unchanged, and a read that *)
(* repeats the read before it under the same flag returns identical        *)
(* columns and rows.                                                       *)
C23_Original ==
    ReadCall =>
        /\ db = db0
        /\ RepeatedCall => result = prev.result

(* C23: a read leaves the data source unchanged; a read that repeats the   *)
(* read before it under the same flag returns the same columns, and the    *)
(* same rows when the statement calls no volatile function (random(),      *)
(* datetime('now'), ...), whose values the gateway passes on as the driver *)
(* computes them at each execution.                                        *)
C23_Amended ==
    ReadCall =>
        /\ db = db0
        /\ committed = <<>>
        /\ RepeatedCall =>
               /\ result.kind = prev.result.kind
               /\ result.kind = "table" => result.columns = prev.result.columns
               /\ ~CallsVolatile(sql) => result = prev.result

\* a read over stored data repeated with the same answer
C23_Witness ==
    /\ ReadCall
    /\ RepeatedCall
    /\ ~CallsVolatile(sql)
    /\ result.kind = "table"
    /\ result.rows # <<>>
    /\ result = prev.result

----------------------------------------------------------------------------
(* C25: after any sequence of login attempts, logouts and gateway calls    *)
(* the authorization flag is true exactly when the most recent login       *)
(* attempt supplied both the administrator's email and password and no     *)
(* logout has happened since; it is false initially.                       *)
C25_FlagFollowsLastLogin ==
    is_authenticated <=> last_login = "valid"

----------------------------------------------------------------------------
\* a table or an acknowledgment
NonErrorResult(r) == r.kind \in {"table", "ack"}

\* the input holds no statement: it is empty, or blanks and separators only
NoStatement(text) == \A i \in 1..Len(text) : text[i] \in Whitespace \cup {";"}

(* C26: every value a write-capable gateway returns is a table, an         *)
(* acknowledgment, an error, or a list of at least two results none of     *)
(* which is an error; an input that holds no non-empty statement (empty,   *)
(* blanks only, separators only) is answered with an error, in the strict  *)
(* and in the multi-statement variant.                                     *)
C26_ReturnShapes ==
    (Called /\ variant \in WriteCapable) =>
        /\ \/ NonErrorResult(result)
           \/ result.kind = "error"
           \/ /\ result.kind = "list"
              /\ Len(result.items) >= 2
              /\ \A k \in 1..Len(result.items) : NonErrorResult(result.items[k])
        /\ NoStatement(sql) => result.kind = "error"

----------------------------------------------------------------------------
\* the positions of the executed texts that come from an INSERT, UPDATE or
\* DELETE statement of the input
WritesExecuted ==
    {k \in 1..Len(executed) :
        LeadingKeywordIn(StatementsOfInput[k], {"INSERT", "UPDATE", "DELETE"})}

(* C27: in the write-capable variants the text handed to the driver for an *)
(* INSERT, UPDATE or DELETE statement is exactly the trimmed statement of  *)
(* the input: no LIMIT clause is appended, whether or not the statement    *)
(* holds LIMIT or an aggregate indicator.                                  *)
C27_WritesUntouched ==
    (Called /\ variant \in WriteCapable) =>
        \A k \in WritesExecuted : executed[k] = StatementsOfInput[k]

\* a write without LIMIT and without aggregate indicator was executed
C27_Witness ==
    /\ Called
    /\ variant \in WriteCapable
    /\ \E k \in WritesExecuted :
           /\ ~TextHasLimit(executed[k])
           /\ ~TextHasAggregate(executed[k])
           /\ executed[k] \in TextsIn(committed)

----------------------------------------------------------------------------
\* the place of the agent on the chain gemini -> glm -> groq -> fallback mode
PlaceOf(api, available) ==
    IF ~available THEN 4
    ELSE IF api = "gemini" THEN 1
    ELSE IF api = "glm" THEN 2
    ELSE IF api = "groq" THEN 3
    ELSE 4

\* the providers asked so far for the query at hand stand in the order of the
\* chain, each of them once
AskedInOrder ==
    \A i, j \in 1..Len(worker.attempts) :
        i < j => PlaceOf(worker.attempts[i], TRUE) < PlaceOf(worker.attempts[j], TRUE)

\* a query is being processed
Processing == worker.pc \in {"entered", "generate", "failed"}

(* C28: the failover of the desktop agent only moves forward along gemini  *)
(* -> glm -> groq -> fallback mode, asks each provider at most once for a  *)
(* query, and every query that is being processed gets a response.         *)
C28_FailoverTerminates ==
    /\ [][PlaceOf(current_api', gemini_available') >= PlaceOf(current_api, gemini_available)]_vars
    /\ [](AskedInOrder /\ Len(worker.attempts) <= 3)
    /\ [](worker.pc = "done" => worker.response # "none")
    /\ (Processing ~> worker.pc = "done")

\* all three providers failed for one query, which was answered in fallback mode
C28_Witness ==
    /\ worker.pc = "done"
    /\ worker.attempts = <<"gemini", "glm", "groq">>
    /\ worker.response = "result"
    /\ ~gemini_available

----------------------------------------------------------------------------
\* the workers started for which reset_send_button has not run yet
InFlight == {p \in Procs : inv[p].pc \in {"started", "wired", "gated", "done"}}

(* C29: at most one query is in flight in the desktop agent: once           *)
(* send_message has started a worker thread, no second worker is started,   *)
(* by the Send button or by the Return key, before reset_send_button has    *)
(* run for the first.                                                       *)
C29_OneQueryInFlight == Cardinality(InFlight) <= 1

----------------------------------------------------------------------------
\* the n messages that arrived last, in their order of arrival; all of them
\* when fewer have arrived
MostRecent(n) ==
    [i \in 1..(IF Len(arrivals) < n THEN Len(arrivals) ELSE n) |->
        arrivals[i + (IF Len(arrivals) < n THEN 0 ELSE Len(arrivals) - n)]]

(* C30: after any sequence of add_to_context calls, for every configured   *)
(* max_context_length >= 0, the context window holds at most               *)
(* max_context_length messages, and they are the messages added most       *)
(* recently, in their order of arrival.                                    *)
C30_ContextWindowBounded ==
    /\ Len(context_window) <= max_context_length
    /\ context_window = MostRecent(max_context_length)

====
